---- MODULE Spec2Model ----
(***************************************************************************)
(* Lucky wheel (src/app.py): the daily spin quota of a player, the         *)
(* weighted prize draw, and the request handlers spin, auto_login and      *)
(* player_status running against one shared database.                      *)
(*                                                                         *)
(* A calendar date ("YYYY-MM-DD" in the code, compared only with == / !=)  *)
(* is a day number 1, 2, ...; None is 0.  A draw r = random.uniform(0,     *)
(* total) is a multiple of 1/Granularity, carried as r * Granularity.      *)
(***************************************************************************)
EXTENDS Integers, Sequences, FiniteSets, TLC

\* ---------------------------------------------------------------- bounds
MaxDay == 2
MaxPerDay == 2
MaxPrizes == 3
MaxWeight == 2
Granularity == 2
MaxKeyLen == 2

None == 0
\* the cast: two rows of the players table, two request workers, two browsers
PlayerIds == {1, 2}
Workers == {1, 2}
Clients == {"a", "b"}
Days == 1..MaxDay
PerDayValues == -1..MaxPerDay
WeightValues == -1..MaxWeight

VARIABLES
    players,   \* table players: id -> [spins_per_day, last_spin_date, spins_today, active]
    prizes,    \* table prizes, ordered by id: sequence of [id, weight, active]
    session,   \* the client's session cookie: player_id, or None
    today,     \* date.today()
    req,       \* the request each worker is handling, and its position in the handler
    granted,   \* history: successful spins per player and date
    before,    \* history: players and granted as the latest request found them
    sel,       \* a direct call of weighted_random_choice: input, draw and result
    is_admin,  \* the client's session cookie: whether it holds is_admin = True
    call       \* the latest admin request and the status of its response

vars == <<players, prizes, session, today, req, granted, before, sel, is_admin, call>>
web == <<players, prizes, session, today, req, granted, before, is_admin, call>>

\* ------------------------------------------------- weighted_random_choice
NoPrize == [id |-> None, weight |-> 0, active |-> FALSE]

Clamp(w) == IF w > 0 THEN w ELSE 0

Weights(ps) == [i \in DOMAIN ps |-> Clamp(ps[i].weight)]

RECURSIVE SumSeq(_)
SumSeq(ws) == IF ws = <<>> THEN 0 ELSE ws[1] + SumSeq(Tail(ws))

Total(ps) == SumSeq(Weights(ps))

\* random.uniform(0, total): every value of [0, total], both ends included
Uniform(total) == 0..(total * Granularity)

RECURSIVE Walk(_, _, _, _, _)
Walk(ps, ws, r, i, upto) ==
    IF i > Len(ps) THEN ps[Len(ps)]
    ELSE LET u == upto + ws[i]
         IN  IF r <= u * Granularity THEN ps[i] ELSE Walk(ps, ws, r, i + 1, u)

RECURSIVE WalkStrict(_, _, _, _, _)
WalkStrict(ps, ws, r, i, upto) ==
    IF i > Len(ps) THEN ps[Len(ps)]
    ELSE LET u == upto + ws[i]
         IN  IF r < u * Granularity THEN ps[i] ELSE WalkStrict(ps, ws, r, i + 1, u)

weighted_random_choice_strict(ps, r) ==
    IF Total(ps) <= 0 THEN NoPrize ELSE WalkStrict(ps, Weights(ps), r, 1, 0)

RECURSIVE RawSum(_)
RawSum(ps) == IF ps = <<>> THEN 0 ELSE ps[1].weight + RawSum(Tail(ps))

weighted_random_choice_unclamped(ps, r) ==
    IF RawSum(ps) <= 0 THEN NoPrize ELSE Walk(ps, Weights(ps), r, 1, 0)

weighted_random_choice(ps, r) ==
    IF Total(ps) <= 0 THEN NoPrize ELSE Walk(ps, Weights(ps), r, 1, 0)

\* ------------------------------------------------ the selector on its own
PrizeLists ==
    UNION { [1..n -> [id : {None}, weight : WeightValues, active : {TRUE}]] : n \in 0..MaxPrizes }

\* the rows as the table holds them: ids 1, 2, ... in order
WithIds(ps) == [i \in DOMAIN ps |-> [ps[i] EXCEPT !.id = i]]

SelIdle == [pc |-> "idle", prizes |-> <<>>, r |-> 0, result |-> NoPrize]

SelCall ==
    \E ps \in PrizeLists :
        sel = [pc |-> "call", prizes |-> WithIds(ps), r |-> 0, result |-> NoPrize]

SelNone ==
    /\ sel.pc = "call"
    /\ Total(sel.prizes) <= 0
    /\ sel' = [sel EXCEPT !.pc = "returned",
                          !.result = weighted_random_choice(sel.prizes, 0)]
    /\ UNCHANGED web

SelDraw ==
    /\ sel.pc = "call"
    /\ Total(sel.prizes) > 0
    /\ \E r \in Uniform(Total(sel.prizes)) :
           sel' = [sel EXCEPT !.pc = "returned", !.r = r,
                              !.result = weighted_random_choice(sel.prizes, r)]
    /\ UNCHANGED web

SelNext == SelNone \/ SelDraw

\* ---------------------------------------------------------------- tables

NoRow == [spins_per_day |-> 0, last_spin_date |-> None, spins_today |-> 0, active |-> FALSE]

\* db.query(Player).filter(Player.id == pid, Player.active == True).first()
FoundPlayer(rows, pid) == pid \in DOMAIN rows /\ rows[pid].active

EligibleActiveOnly(p) == p.active

\* .filter(Prize.active == True, Prize.weight > 0).order_by(Prize.id).all()
Eligible(p) == p.active /\ p.weight > 0
EligiblePrizes(ps) == SelectSeq(ps, Eligible)

\* ----------------------------------------------------------------- quota
Max(a, b) == IF a >= b THEN a ELSE b

spins_left_today_ignores_date(row, d) == Max(row.spins_per_day - row.spins_today, 0)

spins_left_today(row, d) ==
    IF row.last_spin_date # d THEN row.spins_per_day
    ELSE Max(row.spins_per_day - row.spins_today, 0)

SpinResetKeepsCounter(row, d) ==
    IF row.last_spin_date # d THEN [row EXCEPT !.last_spin_date = d] ELSE row

\* spin: the rollover on the loaded object
SpinReset(row, d) ==
    IF row.last_spin_date # d
    THEN [row EXCEPT !.last_spin_date = d, !.spins_today = 0]
    ELSE row

QuotaExhaustedOffByOne(row) == row.spins_today > row.spins_per_day

\* spin: the quota check
QuotaExhausted(row) == row.spins_today >= row.spins_per_day

LoginStaleAlways(row, d) == TRUE

\* auto_login: the rollover test on the session's player
LoginStale(row, d) == row.last_spin_date # d

HasSpinsAlways(row, d) == TRUE

\* auto_login: a player still has spins (the available list, and the redirect)
HasSpins(row, d) ==
    IF row.last_spin_date # d THEN TRUE ELSE row.spins_today < row.spins_per_day

FlushCounterOnly(row, loaded, obj) ==
    [row EXCEPT !.spins_today =
                    IF obj.spins_today # loaded.spins_today
                    THEN obj.spins_today ELSE @]

\* db.commit(): the UPDATE carries the columns whose value differs from the loaded one
Flush(row, loaded, obj) ==
    [row EXCEPT !.last_spin_date =
                    IF obj.last_spin_date # loaded.last_spin_date
                    THEN obj.last_spin_date ELSE @,
                !.spins_today =
                    IF obj.spins_today # loaded.spins_today
                    THEN obj.spins_today ELSE @]

DiscardFlushes(row, loaded, obj) == Flush(row, loaded, obj)

\* leaving "with SessionLocal() as db" without a commit: the session is closed
\* and what was changed on the loaded object is rolled back
Discard(row, loaded, obj) == row

\* -------------------------------------------------------------- requests
IdleReq ==
    [op |-> "none", pc |-> "idle", client |-> "a", pid |-> None, cookie |-> None,
     today_str |-> None, loaded |-> NoRow, player |-> NoRow, result |-> "",
     prize |-> NoPrize, spins_left |-> 0]

NewReq(op, pc, c) ==
    [IdleReq EXCEPT !.op = op, !.pc = pc, !.client = c,
                    !.pid = session[c], !.cookie = session[c],
                    !.today_str = today]

\* the handler returns: the objects of its database session are gone
Finish(r, result) ==
    [r EXCEPT !.pc = "done", !.result = result, !.loaded = NoRow, !.player = NoRow]

Busy(w) == req[w].pc # "idle"
Quiet == \A w \in Workers : ~Busy(w)

\* a request is taken by the first worker that is free
Free(w) == ~Busy(w) /\ \A v \in Workers : v < w => Busy(v)

\* ------------------------------------------------------------------ spin
SpinBegin(w, c) ==
    /\ Free(w)
    /\ req' = [req EXCEPT ![w] =
                 IF session[c] = None
                 THEN Finish(NewReq("spin", "done", c), "NOT_AUTHENTICATED")
                 ELSE NewReq("spin", "load", c)]
    /\ UNCHANGED <<players, prizes, session, today, granted, sel, is_admin, call>>

\* the prizes queried before the quota is looked at
SpinLoadPrizesFirst(w) ==
    /\ req[w].op = "spin" /\ req[w].pc = "load"
    /\ LET r == req[w]
           row == players[r.pid]
           obj == SpinReset(row, r.today_str)
       IN  IF ~FoundPlayer(players, r.pid)
           THEN /\ req' = [req EXCEPT ![w] = Finish(r, "PLAYER_NOT_FOUND")]
                /\ UNCHANGED players
           ELSE IF EligiblePrizes(prizes) = <<>>
           THEN /\ req' = [req EXCEPT ![w] = Finish(r, "NO_ELIGIBLE_PRIZE")]
                /\ players' = [players EXCEPT ![r.pid] = Discard(@, row, obj)]
           ELSE IF QuotaExhausted(obj)
           THEN /\ req' = [req EXCEPT ![w] = Finish(r, "QUOTA_EXCEEDED")]
                /\ players' = [players EXCEPT ![r.pid] = Discard(@, row, obj)]
           ELSE /\ req' = [req EXCEPT ![w] = [r EXCEPT !.pc = "draw", !.loaded = row,
                                                        !.player = obj]]
                /\ UNCHANGED players
    /\ UNCHANGED <<prizes, session, today, granted, before, sel, is_admin, call>>

SpinLoad(w) ==
    /\ req[w].op = "spin" /\ req[w].pc = "load"
    /\ LET r == req[w]
           row == players[r.pid]
           obj == SpinReset(row, r.today_str)
       IN  IF ~FoundPlayer(players, r.pid)
           THEN /\ req' = [req EXCEPT ![w] = Finish(r, "PLAYER_NOT_FOUND")]
                /\ UNCHANGED players
           ELSE IF QuotaExhausted(obj)
           THEN /\ req' = [req EXCEPT ![w] = Finish(r, "QUOTA_EXCEEDED")]
                /\ players' = [players EXCEPT ![r.pid] = Discard(@, row, obj)]
           ELSE /\ req' = [req EXCEPT ![w] = [r EXCEPT !.pc = "draw", !.loaded = row,
                                                        !.player = obj]]
                /\ UNCHANGED players
    /\ UNCHANGED <<prizes, session, today, granted, before, sel, is_admin, call>>

SpinDraw(w) ==
    /\ req[w].op = "spin" /\ req[w].pc = "draw"
    /\ LET r == req[w]
           ps == EligiblePrizes(prizes)
       IN  IF ps = <<>>
           THEN /\ req' = [req EXCEPT ![w] = Finish(r, "NO_ELIGIBLE_PRIZE")]
                /\ players' = [players EXCEPT ![r.pid] = Discard(@, r.loaded, r.player)]
           ELSE \E x \in Uniform(Total(ps)) :
                  LET prize == weighted_random_choice(ps, x)
                  IN  IF prize = NoPrize
                      THEN /\ req' = [req EXCEPT ![w] = Finish(r, "CANNOT_CHOOSE")]
                           /\ players' = [players EXCEPT ![r.pid] =
                                              Discard(@, r.loaded, r.player)]
                      ELSE /\ req' = [req EXCEPT ![w] =
                                        [r EXCEPT !.pc = "commit", !.prize = prize,
                                                  !.player.spins_today = @ + 1]]
                           /\ UNCHANGED players
    /\ UNCHANGED <<prizes, session, today, granted, before, sel, is_admin, call>>

\* an UPDATE without its WHERE id = ... clause
SpinCommitAllRows(w) ==
    /\ req[w].op = "spin" /\ req[w].pc = "commit"
    /\ LET r == req[w]
       IN  /\ players' = [p \in PlayerIds |-> Flush(players[p], r.loaded, r.player)]
           /\ req' = [req EXCEPT ![w] = [r EXCEPT !.pc = "respond"]]
    /\ UNCHANGED <<prizes, session, today, before, sel, is_admin, call>>

SpinCommit(w) ==
    /\ req[w].op = "spin" /\ req[w].pc = "commit"
    /\ LET r == req[w]
       IN  /\ players' = [players EXCEPT ![r.pid] = Flush(@, r.loaded, r.player)]
           /\ req' = [req EXCEPT ![w] = [r EXCEPT !.pc = "respond"]]
    /\ UNCHANGED <<prizes, session, today, before, sel, is_admin, call>>

\* the ledger of the spins granted: one more for the request's player and date
Granted(w) == granted' = [granted EXCEPT ![req[w].pid][req[w].today_str] = @ + 1]

\* the ledger's view of the tables when a request arrives
Arrival == before' = [players |-> players, granted |-> granted]

\* db.commit() raises: nothing is written, the request ends with a 500
SpinCommitFails(w) ==
    /\ req[w].op = "spin" /\ req[w].pc = "commit"
    /\ LET r == req[w]
       IN  /\ players' = [players EXCEPT ![r.pid] = Discard(@, r.loaded, r.player)]
           /\ req' = [req EXCEPT ![w] = Finish(r, "STORE_FAILURE")]
    /\ UNCHANGED <<prizes, session, today, granted, before, sel, is_admin, call>>

\* after the commit the object is expired: its attributes are read back from the row
SpinRespond(w) ==
    /\ req[w].op = "spin" /\ req[w].pc = "respond"
    /\ LET r == req[w]
           row == players[r.pid]
       IN  req' = [req EXCEPT ![w] =
                     Finish([r EXCEPT !.spins_left =
                                 Max(row.spins_per_day - row.spins_today, 0)], "OK")]
    /\ UNCHANGED <<players, prizes, session, today, granted, before, sel, is_admin, call>>

\* ------------------------------------------------------------ auto_login
AutoLoginBegin(w, c) ==
    /\ Free(w)
    /\ req' = [req EXCEPT ![w] =
                 IF session[c] = None
                 THEN NewReq("auto_login", "scan", c)
                 ELSE NewReq("auto_login", "load", c)]
    /\ UNCHANGED <<players, prizes, session, today, granted, sel, is_admin, call>>

AutoLoginLoad(w) ==
    /\ req[w].op = "auto_login" /\ req[w].pc = "load"
    /\ LET r == req[w]
           row == players[r.pid]
       IN  req' = [req EXCEPT ![w] =
                 IF ~FoundPlayer(players, r.pid)
                 THEN [r EXCEPT !.pc = "scan", !.cookie = None]
                 ELSE IF LoginStale(row, r.today_str)
                 THEN [r EXCEPT !.pc = "commit", !.loaded = row,
                                !.player = [row EXCEPT !.last_spin_date = r.today_str,
                                                       !.spins_today = 0]]
                 ELSE Finish(r, IF row.spins_today < row.spins_per_day
                                THEN "REDIRECT" ELSE "QUOTA_ALERT")]
    /\ UNCHANGED <<players, prizes, session, today, granted, before, sel, is_admin, call>>

AutoLoginCommit(w) ==
    /\ req[w].op = "auto_login" /\ req[w].pc = "commit"
    /\ LET r == req[w]
       IN  /\ players' = [players EXCEPT ![r.pid] = Flush(@, r.loaded, r.player)]
           /\ req' = [req EXCEPT ![w] = [r EXCEPT !.pc = "after"]]
    /\ UNCHANGED <<prizes, session, today, granted, before, sel, is_admin, call>>

AutoLoginCommitFails(w) ==
    /\ req[w].op = "auto_login" /\ req[w].pc = "commit"
    /\ req' = [req EXCEPT ![w] = Finish(req[w], "STORE_FAILURE")]
    /\ UNCHANGED <<players, prizes, session, today, granted, before, sel, is_admin, call>>

AutoLoginAfter(w) ==
    /\ req[w].op = "auto_login" /\ req[w].pc = "after"
    /\ LET r == req[w]
           row == players[r.pid]
       IN  req' = [req EXCEPT ![w] =
                     Finish(r, IF row.spins_today < row.spins_per_day
                               THEN "REDIRECT" ELSE "QUOTA_ALERT")]
    /\ UNCHANGED <<players, prizes, session, today, granted, before, sel, is_admin, call>>

Available(rows, d) == {p \in DOMAIN rows : rows[p].active /\ HasSpins(rows[p], d)}

AutoLoginScan(w) ==
    /\ req[w].op = "auto_login" /\ req[w].pc = "scan"
    /\ LET r == req[w]
           available == Available(players, r.today_str)
       IN  IF available = {}
           THEN req' = [req EXCEPT ![w] = Finish(r, "NO_ACCOUNT")]
           ELSE \E chosen \in available :
                    req' = [req EXCEPT ![w] =
                              Finish([r EXCEPT !.cookie = chosen], "LOGGED_IN")]
    /\ UNCHANGED <<players, prizes, session, today, granted, before, sel, is_admin, call>>

\* --------------------------------------------------------- player_status
PlayerStatusBegin(w, c) ==
    /\ Free(w)
    /\ req' = [req EXCEPT ![w] =
                 IF session[c] = None
                 THEN Finish(NewReq("player_status", "done", c), "ANONYMOUS")
                 ELSE NewReq("player_status", "load", c)]
    /\ UNCHANGED <<players, prizes, session, today, granted, sel, is_admin, call>>

PlayerStatusLoad(w) ==
    /\ req[w].op = "player_status" /\ req[w].pc = "load"
    /\ LET r == req[w]
       IN  req' = [req EXCEPT ![w] =
                 IF ~FoundPlayer(players, r.pid)
                 THEN Finish([r EXCEPT !.cookie = None], "ANONYMOUS")
                 ELSE Finish([r EXCEPT !.today_str = today,
                                       !.spins_left = spins_left_today(players[r.pid], today)],
                             "AUTHENTICATED")]
    /\ UNCHANGED <<players, prizes, session, today, granted, before, sel, is_admin, call>>

\* ------------------------------------------------- responses and the date
\* the response reaches the client: its cookie now holds the request's session
Return(w) ==
    /\ req[w].pc = "done"
    /\ session' = [session EXCEPT ![req[w].client] = req[w].cookie]
    /\ req' = [req EXCEPT ![w] = IdleReq]
    /\ UNCHANGED <<players, prizes, today, granted, before, sel, is_admin, call>>

AdvanceDay ==
    /\ today < MaxDay
    /\ today' = today + 1
    /\ UNCHANGED <<players, prizes, session, req, granted, before, sel, is_admin, call>>


\* ------------------------------------------------------ admin handlers
\* a key is a string over a blank and a letter; the absent key and "" are <<>>
KeyChars == {" ", "k"}
Keys == UNION {[1..n -> KeyChars] : n \in 0..MaxKeyLen}
ADMIN_KEY == <<"k">>

\* str.strip(): the string without its leading and trailing blanks
RECURSIVE LStrip(_)
LStrip(s) == IF s # <<>> /\ Head(s) = " " THEN LStrip(Tail(s)) ELSE s

RECURSIVE RStrip(_)
RStrip(s) == IF s # <<>> /\ s[Len(s)] = " " THEN RStrip(SubSeq(s, 1, Len(s) - 1)) ELSE s

Strip(s) == RStrip(LStrip(s))

\* the ?admin_key values a request is sent with; the X-Admin-Key header is any key
QueryKeys == {<<>>, ADMIN_KEY}

\* request.headers.get("X-Admin-Key") or request.args.get("admin_key")
KeyOf(hk, qk) == IF hk # <<>> THEN hk ELSE qk

check_admin_any_key(flag, key) == flag \/ key # <<>>

\* TRUE when check_admin returns None
check_admin(flag, key) == flag \/ (key # <<>> /\ key = ADMIN_KEY)

NoCall == [op |-> "none", client |-> "a", key |-> <<>>, status |-> 0]

Called(op, c, key, status) == call' = [op |-> op, client |-> c, key |-> key, status |-> status]

AdminIdle == UNCHANGED <<players, session, today, req, granted, before, sel>>

admin_login_api(c, sent) ==
    /\ LET key == Strip(sent)
       IN  IF key = <<>>
           THEN Called("login", c, sent, 400) /\ UNCHANGED is_admin
           ELSE IF key # ADMIN_KEY
           THEN Called("login", c, sent, 401) /\ is_admin' = [is_admin EXCEPT ![c] = FALSE]
           ELSE Called("login", c, sent, 200) /\ is_admin' = [is_admin EXCEPT ![c] = TRUE]
    /\ UNCHANGED prizes
    /\ AdminIdle

admin_logout_api(c) ==
    /\ is_admin' = [is_admin EXCEPT ![c] = FALSE]
    /\ Called("logout", c, <<>>, 200)
    /\ UNCHANGED prizes
    /\ AdminIdle

\* the cast of the prizes table under administration
PrizeIds == {1, 2}
\* the id the database gives the next row
NextId(ps) == IF ps = <<>> THEN 1 ELSE ps[Len(ps)].id + 1

\* a JSON body: the keys it has, and their values
Body(has, name, weight, active) ==
    [has |-> has, name |-> name, weight |-> weight, active |-> active]

\* data.get(key, d), and the assignment under "if key in data"
Get(data, key, d) == IF key \in data.has THEN data[key] ELSE d

\* the bodies of a create: no name, an empty name, a name alone, every field
CreateBodies ==
    { Body({}, "", 0, FALSE),
      Body({"name"}, "", 0, FALSE),
      Body({"name"}, "A", 0, FALSE),
      Body({"name", "weight", "active"}, "B", 0, FALSE) }

admin_create_prize(c, hk, qk, data) ==
    /\ LET key == KeyOf(hk, qk)
       IN  IF ~check_admin(is_admin[c], key)
           THEN Called("create", c, key, 401) /\ UNCHANGED prizes
           ELSE IF Get(data, "name", "") = ""
           THEN Called("create", c, key, 400) /\ UNCHANGED prizes
           ELSE /\ NextId(prizes) \in PrizeIds
                /\ prizes' = Append(prizes, [id |-> NextId(prizes), name |-> data.name,
                                             weight |-> Get(data, "weight", 1),
                                             active |-> Get(data, "active", TRUE)])
                /\ Called("create", c, key, 201)
    /\ UNCHANGED is_admin
    /\ AdminIdle

\* the bodies of an update: nothing, one field, every field
UpdateBodies ==
    { Body({}, "", 0, FALSE),
      Body({"weight"}, "", 0, FALSE),
      Body({"name", "weight", "active"}, "B", 1, FALSE) }

HasPrize(ps, pid) == \E i \in DOMAIN ps : ps[i].id = pid

Updated(p, data) ==
    [id |-> p.id, name |-> Get(data, "name", p.name),
     weight |-> Get(data, "weight", p.weight), active |-> Get(data, "active", p.active)]

admin_update_prize(c, hk, qk, pid, data) ==
    /\ LET key == KeyOf(hk, qk)
       IN  IF ~check_admin(is_admin[c], key)
           THEN Called("update", c, key, 401) /\ UNCHANGED prizes
           ELSE IF ~HasPrize(prizes, pid)
           THEN Called("update", c, key, 404) /\ UNCHANGED prizes
           ELSE /\ prizes' = [i \in DOMAIN prizes |->
                                 IF prizes[i].id = pid THEN Updated(prizes[i], data)
                                 ELSE prizes[i]]
                /\ Called("update", c, key, 200)
    /\ UNCHANGED is_admin
    /\ AdminIdle

admin_delete_prize(c, hk, qk, pid) ==
    /\ LET key == KeyOf(hk, qk)
       IN  IF ~check_admin(is_admin[c], key)
           THEN Called("delete", c, key, 401) /\ UNCHANGED prizes
           ELSE IF ~HasPrize(prizes, pid)
           THEN Called("delete", c, key, 404) /\ UNCHANGED prizes
           ELSE /\ prizes' = SelectSeq(prizes, LAMBDA p : p.id # pid)
                /\ Called("delete", c, key, 200)
    /\ UNCHANGED is_admin
    /\ AdminIdle

\* ------------------------------------------------------- specifications
\* init_db's seed: every prize active with a positive weight, every player
\* active with one spin a day and no spin yet; no client has a cookie
SeedPrizes ==
    << [id |-> 1, name |-> "A", weight |-> 2, active |-> TRUE],
       [id |-> 2, name |-> "B", weight |-> 1, active |-> TRUE] >>

SeedPlayer == [spins_per_day |-> 1, last_spin_date |-> None, spins_today |-> 0, active |-> TRUE]

SeedInit ==
    /\ players = [p \in PlayerIds |-> SeedPlayer]
    /\ prizes = SeedPrizes
    /\ session = [c \in Clients |-> None]
    /\ today = 1
    /\ req = [w \in Workers |-> IdleReq]
    /\ granted = [p \in PlayerIds |-> [d \in Days |-> 0]]
    /\ before = [players |-> players, granted |-> granted]
    /\ is_admin = [c \in Clients |-> FALSE]
    /\ call = NoCall

PrizeTables ==
    { <<>>,
      << [id |-> 1, name |-> "A", weight |-> 0, active |-> TRUE],
         [id |-> 2, name |-> "B", weight |-> 2, active |-> FALSE] >>,
      << [id |-> 1, name |-> "A", weight |-> 0, active |-> TRUE],
         [id |-> 2, name |-> "B", weight |-> 1, active |-> TRUE],
         [id |-> 3, name |-> "A", weight |-> 2, active |-> TRUE] >> }

\* the seed with the quota, the active flag and the prizes as an administrator
\* may have set them, and the cookies as earlier visits may have left them
ConfiguredInit ==
    /\ players \in [PlayerIds -> [spins_per_day : PerDayValues, last_spin_date : {None},
                                  spins_today : {0}, active : BOOLEAN]]
    /\ prizes \in PrizeTables
    /\ session \in [Clients -> {None} \cup PlayerIds]
    /\ today = 1
    /\ req = [w \in Workers |-> IdleReq]
    /\ granted = [p \in PlayerIds |-> [d \in Days |-> 0]]
    /\ before = [players |-> players, granted |-> granted]
    /\ is_admin = [c \in Clients |-> FALSE]
    /\ call = NoCall

Begin(w, c) == SpinBegin(w, c) \/ AutoLoginBegin(w, c) \/ PlayerStatusBegin(w, c)

Step(w) ==
    \/ SpinLoad(w) \/ SpinDraw(w) \/ SpinCommitFails(w) \/ SpinRespond(w)
    \/ AutoLoginLoad(w) \/ AutoLoginCommit(w) \/ AutoLoginCommitFails(w)
    \/ AutoLoginAfter(w) \/ AutoLoginScan(w)
    \/ PlayerStatusLoad(w)
    \/ Return(w)

\* requests overlap freely, and the date may change under them
Init == SeedInit /\ sel = SelIdle

Next ==
    \/ \E w \in Workers, c \in Clients : Begin(w, c) /\ UNCHANGED before
    \/ \E w \in Workers : Step(w)
    \/ \E w \in Workers : SpinCommit(w) /\ UNCHANGED granted
    \/ AdvanceDay

Spec == Init /\ [][Next]_vars

\* one request at a time, the date changing only between requests; the ledger
\* (granted, before) is kept
SeqInit == ConfiguredInit /\ sel = SelIdle

SeqNext ==
    \/ Quiet /\ \E w \in Workers, c \in Clients : Begin(w, c) /\ Arrival
    \/ \E w \in Workers : Step(w)
    \/ \E w \in Workers : SpinCommit(w) /\ Granted(w)
    \/ Quiet /\ AdvanceDay

SpecSeq == SeqInit /\ [][SeqNext]_vars

\* weighted_random_choice called on any list of prizes
SelInit == SeedInit /\ SelCall

SpecSel == SelInit /\ [][SelNext]_vars

\* the administration of the prizes: logins, logouts and prize requests of the
\* clients, one handler at a time, on the seeded table
AdminNext ==
    \/ \E c \in Clients, sent \in Keys : admin_login_api(c, sent)
    \/ \E c \in Clients : admin_logout_api(c)
    \/ \E c \in Clients, hk \in Keys, qk \in QueryKeys, data \in CreateBodies :
           admin_create_prize(c, hk, qk, data)
    \/ \E c \in Clients, hk \in Keys, qk \in QueryKeys, pid \in PrizeIds, data \in UpdateBodies :
           admin_update_prize(c, hk, qk, pid, data)
    \/ \E c \in Clients, hk \in Keys, qk \in QueryKeys, pid \in PrizeIds :
           admin_delete_prize(c, hk, qk, pid)

SpecAdmin == Init /\ [][AdminNext]_vars


\* ================================================================ claims
Done(w, op) == req[w].op = op /\ req[w].pc = "done"

\* C1: two overlapping spin requests of one player with spins_per_day = 1, for
\* the same date, never both succeed.
C1_NeverBothSucceed ==
    \A w1, w2 \in Workers :
        ( /\ w1 # w2
          /\ Done(w1, "spin") /\ Done(w2, "spin")
          /\ req[w1].pid \in PlayerIds
          /\ req[w1].pid = req[w2].pid
          /\ req[w1].today_str = req[w2].today_str
          /\ players[req[w1].pid].spins_per_day = 1 )
        => ~(req[w1].result = "OK" /\ req[w2].result = "OK")

\* C2: with requests and date changes one after the other, the spins granted to
\* a player on a date never exceed the player's spins_per_day.
C2_QuotaNeverExceeded ==
    \A p \in PlayerIds, d \in Days :
        granted[p][d] <= Max(players[p].spins_per_day, 0)

\* the quota of two or more spins was used up, and a further spin was refused
C2_Witness ==
    \E w \in Workers :
        /\ Done(w, "spin") /\ req[w].result = "QUOTA_EXCEEDED"
        /\ players[req[w].pid].spins_per_day >= 2
        /\ granted[req[w].pid][req[w].today_str] = players[req[w].pid].spins_per_day

\* C3: an active player whose spins_per_day is 0 or negative is reported 0
\* remaining spins, and every spin of that player is refused with QUOTA_EXCEEDED.
C3_NeverEligible ==
    \A w \in Workers :
        ( /\ req[w].pc = "done"
          /\ FoundPlayer(before.players, req[w].pid)
          /\ before.players[req[w].pid].spins_per_day <= 0 )
        => /\ Done(w, "player_status") => req[w].spins_left = 0
           /\ Done(w, "spin") => req[w].result = "QUOTA_EXCEEDED"

\* C4: a spin request that fails, whatever the reason, leaves the players table
\* (every last_spin_date and spins_today) as the request found it.
C4_FailedSpinLeavesQuota ==
    \A w \in Workers :
        (Done(w, "spin") /\ req[w].result # "OK")
        => /\ players = before.players
           /\ req[w].result \in {"NOT_AUTHENTICATED", "PLAYER_NOT_FOUND", "QUOTA_EXCEEDED",
                                 "NO_ELIGIBLE_PRIZE", "STORE_FAILURE"}

\* the commit failed after a rollover reset and an increment on the loaded object
C4_Witness ==
    \E w \in Workers :
        /\ Done(w, "spin") /\ req[w].result = "STORE_FAILURE"
        /\ before.players[req[w].pid].last_spin_date \notin {None, req[w].today_str}
        /\ before.players[req[w].pid].spins_today > 0

\* C5: a spin of an active player whose last_spin_date is the request's date and
\* whose spins_today has reached spins_per_day is refused with QUOTA_EXCEEDED and
\* changes nothing, so that repeating it is refused again.
C5_RejectionIdempotent ==
    \A w \in Workers :
        ( /\ Done(w, "spin")
          /\ FoundPlayer(before.players, req[w].pid)
          /\ before.players[req[w].pid].last_spin_date = req[w].today_str
          /\ before.players[req[w].pid].spins_today
                 >= before.players[req[w].pid].spins_per_day )
        => /\ req[w].result = "QUOTA_EXCEEDED"
           /\ players = before.players

\* a refused spin found the player already refused-ready: the quota used up today
C5_Witness ==
    \E w \in Workers :
        /\ Done(w, "spin") /\ req[w].result = "QUOTA_EXCEEDED"
        /\ before.players[req[w].pid].last_spin_date = req[w].today_str
        /\ before.players[req[w].pid].spins_per_day >= 1
        /\ before.players[req[w].pid].spins_today = before.players[req[w].pid].spins_per_day
        /\ before.granted[req[w].pid][req[w].today_str]
               = before.players[req[w].pid].spins_per_day

\* C6: player_status reports spins_per_day when the stored last_spin_date is not
\* the current date (None included), whatever spins_today is, and
\* max(spins_per_day - spins_today, 0) when it is the current date.
C6_RemainingSpins ==
    \A w \in Workers :
        (Done(w, "player_status") /\ req[w].result = "AUTHENTICATED")
        => LET row == before.players[req[w].pid]
           IN  /\ row.last_spin_date # req[w].today_str
                    => req[w].spins_left = row.spins_per_day
               /\ row.last_spin_date = req[w].today_str
                    => req[w].spins_left = Max(row.spins_per_day - row.spins_today, 0)

\* the stored date is an earlier day and the stale counter is not 0
C6_Witness ==
    \E w \in Workers :
        /\ Done(w, "player_status") /\ req[w].result = "AUTHENTICATED"
        /\ before.players[req[w].pid].last_spin_date \notin {None, req[w].today_str}
        /\ before.players[req[w].pid].spins_today > 0
        /\ req[w].spins_left = before.players[req[w].pid].spins_per_day

\* C7: for an active player with spins_per_day = n > 0 and an eligible prize, a
\* spin that meets no store failure succeeds exactly when fewer than n spins were
\* granted to the player on that date, whatever the stored counter of an earlier
\* date is; the k-th success of the date reports n - k remaining, and the
\* remaining spins before the request are n less the spins granted that date.
C7_RolloverRestoresQuota ==
    \A w \in Workers :
        ( /\ Done(w, "spin")
          /\ FoundPlayer(before.players, req[w].pid)
          /\ before.players[req[w].pid].spins_per_day > 0
          /\ EligiblePrizes(prizes) # <<>>
          /\ req[w].result # "STORE_FAILURE" )
        => LET n == before.players[req[w].pid].spins_per_day
               k == before.granted[req[w].pid][req[w].today_str]
           IN  /\ spins_left_today(before.players[req[w].pid], req[w].today_str) = n - k
               /\ k < n => req[w].result = "OK" /\ req[w].spins_left = n - k - 1
               /\ k >= n => req[w].result = "QUOTA_EXCEEDED"

\* the quota was used up on day 1, and on day 2 again n spins were granted
\* before one was refused
C7_Witness ==
    \E w \in Workers :
        /\ Done(w, "spin") /\ req[w].result = "QUOTA_EXCEEDED"
        /\ req[w].today_str = 2
        /\ players[req[w].pid].spins_per_day >= 2
        /\ granted[req[w].pid][1] = players[req[w].pid].spins_per_day
        /\ granted[req[w].pid][2] = players[req[w].pid].spins_per_day

\* the weights of the claims, summed up to position i
RECURSIVE CumWeight(_, _)
CumWeight(ps, i) ==
    IF i = 0 THEN 0
    ELSE CumWeight(ps, i - 1) + (IF ps[i].weight > 0 THEN ps[i].weight ELSE 0)

Returned == sel.pc = "returned"

\* C8: when the clamped weights sum to more than 0, the prize returned has a
\* weight > 0, for every order of the list and every draw in [0, total].
C8_NeverZeroWeight ==
    (Returned /\ CumWeight(sel.prizes, Len(sel.prizes)) > 0)
    => sel.result.weight > 0

\* C9: NONE is returned exactly when the clamped weights sum to 0 or less; when
\* the sum is positive the result is a prize of the list.
C9_NoneIffNoWeight ==
    Returned =>
        /\ (sel.result = NoPrize) <=> (CumWeight(sel.prizes, Len(sel.prizes)) <= 0)
        /\ CumWeight(sel.prizes, Len(sel.prizes)) > 0
               => \E i \in DOMAIN sel.prizes : sel.result = sel.prizes[i]

\* a negative weight beside a positive one: the raw sum is not positive, the
\* clamped sum is, and a prize is returned
C9_Witness ==
    /\ Returned
    /\ \E i \in DOMAIN sel.prizes : sel.prizes[i].weight < 0
    /\ RawSum(sel.prizes) <= 0
    /\ sel.result # NoPrize

\* C10: the list is walked in the order given and the first prize whose
\* cumulative weight is >= r is returned; with positive weights only, prize i is
\* returned exactly for the draws in (c_(i-1), c_i], and r = 0 gives prize 1.
C10_FirstCumulativeAtLeastR ==
    (Returned /\ CumWeight(sel.prizes, Len(sel.prizes)) > 0)
    => \E i \in DOMAIN sel.prizes :
          /\ sel.result = sel.prizes[i]
          /\ sel.r <= CumWeight(sel.prizes, i) * Granularity
          /\ \A j \in 1..(i - 1) : sel.r > CumWeight(sel.prizes, j) * Granularity
          /\ (\A j \in DOMAIN sel.prizes : sel.prizes[j].weight > 0)
                => \/ i = 1 /\ sel.r = 0
                   \/ /\ CumWeight(sel.prizes, i - 1) * Granularity < sel.r
                      /\ sel.r <= CumWeight(sel.prizes, i) * Granularity

\* a draw on the boundary between the first two of three weighted prizes
C10_Witness ==
    /\ Returned
    /\ Len(sel.prizes) = 3
    /\ \A j \in DOMAIN sel.prizes : sel.prizes[j].weight > 0
    /\ sel.r = CumWeight(sel.prizes, 1) * Granularity
    /\ sel.result = sel.prizes[1]

\* a spin between its first query and its response
SpinInFlight(w) == req[w].op = "spin" /\ req[w].pc \in {"load", "draw", "commit", "respond"}

\* the counter that counts for date d: a counter of another date counts as 0
UsedOn(row, d) == IF row.last_spin_date = d THEN row.spins_today ELSE 0

\* C11: a spin in flight always has a step it can take, whatever the other
\* worker is doing; a step of a spin changes no row but its own player's; and
\* what the step decides is a function of that player's row alone.
C11_SpinsIndependent ==
    /\ [](\A w \in Workers :
            SpinInFlight(w) =>
                ENABLED (SpinLoad(w) \/ SpinDraw(w) \/ SpinCommit(w) \/ SpinRespond(w)))
    /\ [][\A w \in Workers :
            (SpinInFlight(w) /\ req'[w] # req[w]) =>
                LET a == req[w].pid
                    row == players[a]
                    full == UsedOn(row, req[w].today_str) >= row.spins_per_day
                IN  /\ \A b \in PlayerIds \ {a} : players'[b] = players[b]
                    /\ req[w].pc = "load" =>
                          /\ req'[w].result = "PLAYER_NOT_FOUND" <=> ~row.active
                          /\ req'[w].result = "QUOTA_EXCEEDED" <=> (row.active /\ full)
                          /\ req'[w].pc = "draw" <=> (row.active /\ ~full)
                    /\ req[w].pc = "respond" =>
                          req'[w].spins_left = Max(row.spins_per_day - row.spins_today, 0)
      ]_vars

\* one spin is about to commit for one player while a spin of another player
\* has just been granted
C11_Witness ==
    \E w1, w2 \in Workers :
        /\ req[w1].op = "spin" /\ req[w1].pc = "commit"
        /\ Done(w2, "spin") /\ req[w2].result = "OK"
        /\ req[w1].pid # req[w2].pid

\* a prize request answered on the strength of neither the flag nor the key
PrizeOps == {"create", "update", "delete"}

Unauthorized(c, key) == ~is_admin[c] /\ key # ADMIN_KEY

\* C12 as written: a prize create, update or delete sent without the admin
\* flag and without the shared secret is answered 401 and leaves the prizes
\* table as it was; and a client's admin flag turns true only in a login whose
\* submitted key equals the shared secret.
C12_FlagOnlyByEqualKey ==
    [][/\ (call'.op \in PrizeOps /\ Unauthorized(call'.client, call'.key)) =>
              (call'.status = 401 /\ prizes' = prizes)
       /\ \A c \in Clients :
              (~is_admin[c] /\ is_admin'[c]) =>
                  (call'.op = "login" /\ call'.client = c /\ call'.key = ADMIN_KEY)
      ]_vars

\* C12: a prize create, update or delete sent without the admin flag and
\* without the shared secret is answered 401 and leaves the prizes table and
\* the flags as they were; and a client's admin flag turns true only in a
\* login of that client whose submitted key, its leading and trailing blanks
\* removed, equals the shared secret.
C12_AdminOnly ==
    [][/\ (call'.op \in PrizeOps /\ Unauthorized(call'.client, call'.key)) =>
              (call'.status = 401 /\ prizes' = prizes /\ is_admin' = is_admin)
       /\ \A c \in Clients :
              (~is_admin[c] /\ is_admin'[c]) =>
                  /\ call'.op = "login" /\ call'.client = c /\ call'.status = 200
                  /\ Strip(call'.key) = ADMIN_KEY
      ]_vars

\* a prize request with a wrong key was refused while another client, logged
\* in with a padded key, holds the flag
C12_Witness ==
    /\ call.op \in PrizeOps /\ call.status = 401
    /\ call.key \notin {<<>>, ADMIN_KEY} /\ Strip(call.key) = ADMIN_KEY
    /\ ~is_admin[call.client]
    /\ \E c \in Clients : is_admin[c]

\* some prize of the table is active and has a positive weight
SomePrizeEligible == \E i \in DOMAIN prizes : prizes[i].active /\ prizes[i].weight > 0

\* the first check of a spin that fails, "OK" when none does: no player in the
\* session, the player inactive, the quota used up on the request's date (a
\* counter of another date counting as 0), no active prize of positive weight
SpinOutcome(pid, rows, d) ==
    IF pid = None THEN "NOT_AUTHENTICATED"
    ELSE IF pid \notin PlayerIds \/ ~rows[pid].active THEN "PLAYER_NOT_FOUND"
    ELSE IF UsedOn(rows[pid], d) >= rows[pid].spins_per_day THEN "QUOTA_EXCEEDED"
    ELSE IF ~SomePrizeEligible THEN "NO_ELIGIBLE_PRIZE"
    ELSE "OK"

\* C13: a spin that meets no store failure ends with the outcome of the first
\* failing check in the order NOT_AUTHENTICATED, PLAYER_NOT_FOUND,
\* QUOTA_EXCEEDED, NO_ELIGIBLE_PRIZE, and with success exactly when no check
\* fails.
C13_FirstFailingCheck ==
    \A w \in Workers :
        (Done(w, "spin") /\ req[w].result # "STORE_FAILURE")
        => req[w].result = SpinOutcome(req[w].pid, before.players, req[w].today_str)

\* a quota of 0 is used up from the start, and no prize is eligible: the spin
\* reports the quota
C13_Witness ==
    \E w \in Workers :
        /\ Done(w, "spin") /\ req[w].result = "QUOTA_EXCEEDED"
        /\ before.players[req[w].pid].active
        /\ before.players[req[w].pid].spins_per_day = 0
        /\ prizes # <<>> /\ ~SomePrizeEligible

\* C14: a successful spin leaves the player's row with last_spin_date the
\* request's date and spins_today one more than the counter that counted for
\* that date (0 when the stored date was another), spins_per_day and active as
\* they were, and every other row as it was; it reports spins_per_day less the
\* new spins_today; and no step of a spin changes the session or the prizes.
C14_SuccessfulSpinEffect ==
    /\ [](\A w \in Workers :
            (Done(w, "spin") /\ req[w].result = "OK")
            => LET a == req[w].pid
                   old == before.players[a]
                   used == UsedOn(old, req[w].today_str) + 1
               IN  /\ players = [before.players EXCEPT
                                    ![a] = [spins_per_day |-> old.spins_per_day,
                                            last_spin_date |-> req[w].today_str,
                                            spins_today |-> used,
                                            active |-> old.active]]
                   /\ req[w].spins_left = old.spins_per_day - used
                   /\ req[w].cookie = a /\ session[req[w].client] = a)
    /\ [][\A w \in Workers :
            (req[w].op = "spin" /\ req'[w] # req[w])
            => (session' = session /\ prizes' = prizes)]_vars

\* a success after a rollover: the stored date was an earlier day and the
\* stale counter was not 0
C14_Witness ==
    \E w \in Workers :
        /\ Done(w, "spin") /\ req[w].result = "OK"
        /\ before.players[req[w].pid].last_spin_date \notin {None, req[w].today_str}
        /\ before.players[req[w].pid].spins_today >= 1
        /\ players[req[w].pid].spins_today = 1

\* C15: the prize of a successful spin is a row of the prizes table that is
\* active and has a positive weight; and a spin that passed the quota check
\* when the table has no such row ends with NO_ELIGIBLE_PRIZE and no prize.
C15_AwardedPrizeEligible ==
    \A w \in Workers :
        Done(w, "spin") =>
            /\ req[w].result = "OK" =>
                   \E i \in DOMAIN prizes :
                       /\ prizes[i] = req[w].prize
                       /\ prizes[i].active /\ prizes[i].weight > 0
            /\ ( /\ ~SomePrizeEligible
                 /\ req[w].result \notin {"NOT_AUTHENTICATED", "PLAYER_NOT_FOUND",
                                          "QUOTA_EXCEEDED"} )
               => (req[w].result = "NO_ELIGIBLE_PRIZE" /\ req[w].prize = NoPrize)

\* a prize was awarded from a table whose first row is active with weight 0
C15_Witness ==
    \E w \in Workers :
        /\ Done(w, "spin") /\ req[w].result = "OK"
        /\ prizes # <<>> /\ prizes[1].active /\ prizes[1].weight = 0
        /\ req[w].prize.weight > 0

\* C16: while a player's stored last_spin_date stays the same date, the stored
\* spins_today never decreases, whatever the interleaving of the steps of
\* auto_login and spin requests.
C16_CounterNeverDecreases ==
    [][\A p \in PlayerIds :
          ( /\ players[p].last_spin_date # None
            /\ players'[p].last_spin_date = players[p].last_spin_date )
          => players'[p].spins_today >= players[p].spins_today]_vars

\* the active players with spins left on date d: the stored date is another
\* date, or the counter is below the quota
WithSpinsLeft(rows, d) ==
    {p \in PlayerIds :
        /\ rows[p].active
        /\ (rows[p].last_spin_date # d \/ rows[p].spins_today < rows[p].spins_per_day)}

\* C17: an auto_login that meets no store failure keeps the session's player
\* when that player is active, with the row's date set to the request's date
\* and its counter to 0 when the stored date was another and untouched
\* otherwise; else it changes no row and leaves the session with an active
\* player that has spins left, or with no player when there is none; and it
\* never raises any counter.
C17_AutoLoginBinding ==
    \A w \in Workers :
        (Done(w, "auto_login") /\ req[w].result # "STORE_FAILURE")
        => LET a == req[w].pid
               d == req[w].today_str
               rows == before.players
           IN  /\ (a # None /\ rows[a].active) =>
                     /\ req[w].cookie = a
                     /\ players = [rows EXCEPT ![a] =
                                      IF @.last_spin_date # d
                                      THEN [@ EXCEPT !.last_spin_date = d, !.spins_today = 0]
                                      ELSE @]
               /\ ~(a # None /\ rows[a].active) =>
                     /\ players = rows
                     /\ IF WithSpinsLeft(rows, d) = {} THEN req[w].cookie = None
                        ELSE req[w].cookie \in WithSpinsLeft(rows, d)
               /\ \A p \in PlayerIds : players[p].spins_today <= rows[p].spins_today

\* the session's player was inactive, and the other player, whose quota of
\* the date was used up, was passed over: the session is left without a player
C17_Witness ==
    \E w \in Workers :
        /\ Done(w, "auto_login") /\ req[w].result = "NO_ACCOUNT"
        /\ req[w].pid # None /\ ~before.players[req[w].pid].active
        /\ req[w].cookie = None
        /\ \E p \in PlayerIds :
              /\ players[p].active /\ players[p].spins_per_day >= 1
              /\ players[p].last_spin_date = req[w].today_str
              /\ players[p].spins_today = players[p].spins_per_day

\* player_status's view of a row on date d: spins are left
StatusHasSpins(row, d) == spins_left_today(row, d) > 0

\* C18: the three views of "this active player has spins left" agree on the
\* row and date a request finds: a spin passes the quota check exactly when
\* player_status would report spins_left_today > 0, player_status reports
\* what the function gives, and auto_login picks only a player for whom it
\* is > 0 and reports that there is no account only when there is no such
\* player; and a player_status request changes no row.
C18_ViewsAgree ==
    \A w \in Workers :
        LET a == req[w].pid
            d == req[w].today_str
            rows == before.players
        IN  /\ ( /\ Done(w, "spin")
                 /\ req[w].result \notin {"NOT_AUTHENTICATED", "PLAYER_NOT_FOUND"} )
               => (req[w].result # "QUOTA_EXCEEDED" <=> StatusHasSpins(rows[a], d))
            /\ Done(w, "player_status") =>
                   /\ players = rows
                   /\ req[w].result = "AUTHENTICATED" =>
                          (req[w].spins_left > 0 <=> StatusHasSpins(rows[a], d))
            /\ (Done(w, "auto_login") /\ req[w].result = "LOGGED_IN")
               => StatusHasSpins(rows[req[w].cookie], d)
            /\ (Done(w, "auto_login") /\ req[w].result = "NO_ACCOUNT")
               => \A p \in PlayerIds : rows[p].active => ~StatusHasSpins(rows[p], d)
====
